---- MODULE Spec2Model ----
(***************************************************************************)
(* Voxel placement demo (Bevy + bevy_mod_raycast).                         *)
(*                                                                         *)
(* src/src/main.rs : the current program.  new_cube_from_raycast reads     *)
(*                   Input<MouseButton>::just_pressed and resolves the hit *)
(*                   with the +0.5 / -0.51 offsets, the +0.5 bias, the     *)
(*                   negative correction and the truncating cast.          *)
(* src/main.rs     : the earlier program.  new_cube_from_raycast reads     *)
(*                   EventReader<MouseButtonInput> and resolves the hit    *)
(*                   with the +0.5 / -0.5 offsets and the truncating cast. *)
(*                                                                         *)
(* Vec3 components are f32.  An f32 value v is represented by the integer  *)
(* v * 2^25; every f32 of magnitude below 64 that is a multiple of 2^-25   *)
(* is represented exactly, and an addition rounds to the nearest f32, ties *)
(* to even, as the hardware does.                                          *)
(***************************************************************************)
EXTENDS Integers, Sequences, FiniteSets

VARIABLES
    entities,       \* the ECS world: the entities spawned so far, in spawn order
    pressed,        \* Input<MouseButton>: the buttons currently down
    just_pressed,   \* Input<MouseButton>: the buttons pressed during this frame
    events,         \* Events<MouseButtonInput>: the events delivered this frame
    intersection,   \* what Query<&Intersection<MyRaycastSet>> holds this frame
    stage           \* position in the schedule: "startup", "first", "update", "last"

vars == <<entities, pressed, just_pressed, events, intersection, stage>>

----------------------------------------------------------------------------
(* Bounds of the model.                                                    *)

\* Hit coordinates of the resolver specification range over cells -MaxCell..MaxCell.
MaxCell == 2
\* At most MaxCubes cubes are placed in a run.
MaxCubes == 2
\* At most MaxEvents mouse button events are delivered in one frame.
MaxEvents == 1

----------------------------------------------------------------------------
(* f32 arithmetic.                                                         *)

\* 1.0f32 in units of 2^-25.
One == 33554432
\* 0.5f32.
Half == 16777216
\* The f32 nearest to 0.51: 8556380 * 2^-24.
F051 == 17112760
\* 2^24: the number of values of a 24-bit significand.
Significand == 16777216

Abs(n) == IF n < 0 THEN -n ELSE n

Sign(n) == IF n < 0 THEN -1 ELSE 1

\* The spacing of the f32 values around magnitude a (in units of 2^-25; magnitudes
\* below 0.5 are spaced by one unit or less).
RECURSIVE UlpFrom(_, _)
UlpFrom(a, u) == IF a < Significand * u THEN u ELSE UlpFrom(a, 2 * u)

Ulp(a) == UlpFrom(a, 1)

\* Round to the nearest f32, ties to the even significand.
F32Round(n) ==
    LET a == Abs(n)
        u == Ulp(a)
        q == a \div u
        r == a % u
        up == (2 * r > u) \/ (2 * r = u /\ q % 2 = 1)
    IN  Sign(n) * (IF up THEN q + 1 ELSE q) * u

\* f32 + f32.
F32Add(a, b) == F32Round(a + b)

\* i64 as f32 (the cells of the model are small: the cast is exact).
I64AsF32(i) == i * One

\* f32 as i64: truncation toward zero.
F32AsI64(v) == Sign(v) * (Abs(v) \div One)

\* The largest f32 below v and the smallest f32 above v, on the 2^-25 grid.
F32Pred(v) == IF v > 0 THEN v - Ulp(v - 1) ELSE v - Ulp(Abs(v))

F32Succ(v) == -F32Pred(-v)

----------------------------------------------------------------------------
(* The placement resolver of src/src/main.rs, lines 60-105.                *)

\* Lines 66-70, without the branch of the negative normal.
OffsetNoNegativeBranch(n) == IF n > 0 THEN Half ELSE 0

\* Lines 66-70 (x), 72-76 (y), 78-82 (z): the offset along one axis.

Offset(n) == IF n > 0 THEN Half ELSE IF n < 0 THEN -F051 ELSE 0

\* Lines 84-85: *position + Vec3(offset) + Vec3(0.50, 0.50, 0.50), one axis.
Rough(p, n) == F32Add(F32Add(p, Offset(n)), Half)

\* Lines 88-98: if the pos on an axis is negative, subtract 1.0.
NegativeCorrection(r) == IF r < 0 THEN F32Add(r, -One) ELSE r

\* Lines 84-104 on one axis.
ResolveAxis(p, n) == F32AsI64(NegativeCorrection(Rough(p, n)))

\* Lines 60-105: the BlockPosition of the new cube.
Resolve(position, normal) ==
    [x |-> ResolveAxis(position.x, normal.x),
     y |-> ResolveAxis(position.y, normal.y),
     z |-> ResolveAxis(position.z, normal.z)]

----------------------------------------------------------------------------
(* The placement resolver of src/main.rs, lines 64-93.                     *)

\* Lines 68-72 (x), 74-78 (y), 80-84 (z): the symmetric offset along one axis.
OffsetSym(n) == IF n > 0 THEN Half ELSE IF n < 0 THEN -Half ELSE 0

\* Lines 86-92 on one axis: *position + Vec3(offset), then the truncating cast.
ResolveAxisOld(p, n) == F32AsI64(F32Add(p, OffsetSym(n)))

\* Lines 64-93: the BlockPosition of the new cube.
ResolveOld(position, normal) ==
    [x |-> ResolveAxisOld(position.x, normal.x),
     y |-> ResolveAxisOld(position.y, normal.y),
     z |-> ResolveAxisOld(position.z, normal.z)]

----------------------------------------------------------------------------
(* Entities.                                                               *)

\* const GRID_SIZE: u64 = 5
GRID_SIZE == 5

Vec3(a, b, c) == [x |-> a, y |-> b, z |-> c]

\* struct BlockPosition { x: i64, y: i64, z: i64 }
BlockPosition(a, b, c) == [x |-> a, y |-> b, z |-> c]

\* BlockPosition::into_transform: the translation of the entity.
into_transform(b) == Vec3(I64AsF32(b.x), I64AsF32(b.y), I64AsF32(b.z))

\* An entity: its mesh, its BlockPosition component (none or one) and whether
\* it carries the RayCastMesh<MyRaycastSet> marker.
Entity(m, b, r) == [mesh |-> m, block |-> b, raycast_mesh |-> r]

\* setup, lines 134-152: the floor tile spawned by iteration i of the two loops.
FloorTile(i) ==
    Entity("Plane", <<BlockPosition((i - 1) \div GRID_SIZE, 0, (i - 1) % GRID_SIZE)>>, TRUE)

\* setup, lines 154-177: the point light and the three direction cubes.
Decorations ==
    <<Entity("PointLight", <<>>, FALSE), Entity("SmallCube", <<>>, FALSE),
      Entity("SmallCube", <<>>, FALSE), Entity("SmallCube", <<>>, FALSE)>>

\* setup_base_grid of src/main.rs, lines 142-157: the point light and the camera.
DecorationsOld == <<Entity("PointLight", <<>>, FALSE), Entity("Camera", <<>>, FALSE)>>

\* Lines 107-117, without the insert of RayCastMesh.
SpawnedCubeNoMarker(b) == Entity("Cube", <<b>>, FALSE)

\* new_cube_from_raycast, lines 107-117: the spawned cube.

SpawnedCube(b) == Entity("Cube", <<b>>, TRUE)

\* The entities that carry RayCastMesh: what the raycasting plugin can hit.
Hittable(es) == {i \in 1..Len(es) : es[i].raycast_mesh}

\* The placed cubes, as indices into the world.
Cubes(es) == {i \in 1..Len(es) : es[i].mesh = "Cube"}

----------------------------------------------------------------------------
(* The engine: input and raycasting, run before the Update stage.          *)

Buttons == {"Left", "Right"}

MouseButtonInput(b, s) == [button |-> b, state |-> s]

\* The one event button b can produce when the buttons in down are held.
NextEvent(b, down) == MouseButtonInput(b, IF b \in down THEN "Released" ELSE "Pressed")

\* The buttons down after the events evs.
RECURSIVE Down(_, _)
Down(evs, down) ==
    IF evs = <<>> THEN down
    ELSE Down(Tail(evs),
              IF Head(evs).state = "Pressed" THEN down \cup {Head(evs).button}
              ELSE down \ {Head(evs).button})

\* The event sequences of at most k events the hardware can produce from down.
RECURSIVE EventSeqs(_, _)
EventSeqs(k, down) ==
    IF k = 0 THEN {<<>>}
    ELSE {<<>>} \cup
         UNION {{<<NextEvent(b, down)>> \o t : t \in EventSeqs(k - 1, Down(<<NextEvent(b, down)>>, down))}
                : b \in Buttons}

\* Input<MouseButton>::just_pressed after a frame's events: cleared at the start
\* of the frame, then a button enters when pressed while it was not down.
RECURSIVE JustPressed(_, _)
JustPressed(evs, down) ==
    IF evs = <<>> THEN {}
    ELSE (IF Head(evs).state = "Pressed" /\ Head(evs).button \notin down
          THEN {Head(evs).button} ELSE {})
         \cup JustPressed(Tail(evs), Down(<<Head(evs)>>, down))

\* The query result: n Intersection entities; when there is one, its position
\* and normal (none or one each).
Intersection(n, p, nrm) == [n |-> n, position |-> p, normal |-> nrm]

Normals ==
    {Vec3(One, 0, 0), Vec3(-One, 0, 0), Vec3(0, One, 0),
     Vec3(0, -One, 0), Vec3(0, 0, One), Vec3(0, 0, -One)}

\* Sampled coordinates of a floor tile centred at c, along x and along z: both
\* edges, the middle and the last f32 before the far edge.
TileSamples(c) ==
    {I64AsF32(c) - Half, I64AsF32(c), F32Pred(I64AsF32(c) + Half), I64AsF32(c) + Half}

\* Sampled points of a cube face, relative to its centre, along each axis of the
\* face: the middle and the far edge.
FaceSamples == {0, Half}

\* One coordinate of a point on the face with normal component na of the unit
\* cube centred at c: on the face along the normal, within the face otherwise.
FaceCoord(c, na, d) == I64AsF32(c) + (IF na > 0 THEN Half ELSE IF na < 0 THEN -Half ELSE d)

\* The points sampled on the face with normal nrm of the unit cube at b
\* (shape::Cube { size: 1.0 }, line 111).
CubeFace(b, nrm) ==
    {Vec3(FaceCoord(b.x, nrm.x, dx), FaceCoord(b.y, nrm.y, dy), FaceCoord(b.z, nrm.z, dz))
        : dx \in FaceSamples, dy \in FaceSamples, dz \in FaceSamples}

\* The points sampled on the floor tile at b (shape::Plane { size: 1.0 }, line 129):
\* a horizontal unit square through the tile's centre, facing up.
TileFace(b) ==
    {Vec3(px, I64AsF32(b.y), pz) : px \in TileSamples(b.x), pz \in TileSamples(b.z)}

\* The floor tile the pointer reaches: the tile at (2,0,2).  The other tiles are
\* hittable but the sampled rays do not end on them.
Aimed(b) == b = BlockPosition(2, 0, 2)

\* The hits the raycast can report on entity e.
HitsOn(e) ==
    IF e.mesh = "Plane"
    THEN IF Aimed(e.block[1])
         THEN {Intersection(1, <<p>>, <<Vec3(0, One, 0)>>) : p \in TileFace(e.block[1])}
         ELSE {}
    ELSE UNION {{Intersection(1, <<p>>, <<nrm>>) : p \in CubeFace(e.block[1], nrm)}
                : nrm \in Normals}

SingleHits(es) == UNION {HitsOn(es[i]) : i \in Hittable(es)}

\* The sampled frames with two Intersection entities: the first one is a hit on
\* a floor tile.
SeveralHits(es) ==
    {Intersection(2, h.position, h.normal) :
        h \in UNION {HitsOn(es[i]) : i \in {j \in Hittable(es) : es[j].mesh = "Plane"}}}

\* What the query can hold in a frame: no intersection, one without data, one
\* hit on a hittable entity, or several intersections.
Intersections(es) ==
    {Intersection(0, <<>>, <<>>), Intersection(1, <<>>, <<>>)}
    \cup SingleHits(es)
    \cup SeveralHits(es)

\* The frame is over: its button events are dropped, just_pressed is cleared and
\* the Intersection entities are removed, to be rebuilt by the next frame.
EndFrame ==
    /\ stage = "last"
    /\ events' = <<>>
    /\ just_pressed' = {}
    /\ intersection' = Intersection(0, <<>>, <<>>)
    /\ stage' = "first"
    /\ UNCHANGED <<entities, pressed>>

\* The stages before Update: the window's button events update Input<MouseButton>
\* and the raycasting plugin builds the Intersection entities.
BeginFrame ==
    /\ stage = "first"
    /\ Cardinality(Cubes(entities)) < MaxCubes
    /\ intersection' \in Intersections(entities)
    /\ \E evs \in EventSeqs(MaxEvents, pressed) :
          /\ events' = evs
          /\ pressed' = Down(evs, pressed)
          /\ just_pressed' = JustPressed(evs, pressed)
    /\ stage' = "update"
    /\ UNCHANGED entities

----------------------------------------------------------------------------
(* src/src/main.rs.                                                        *)

\* The world after setup: the floor tiles in loop order, then the decorations.
SetupEntities == [i \in 1..(GRID_SIZE * GRID_SIZE) |-> FloorTile(i)] \o Decorations

\* setup, lines 121-178.
setup ==
    /\ stage = "startup"
    /\ entities' = SetupEntities
    /\ stage' = "first"
    /\ UNCHANGED <<pressed, just_pressed, events, intersection>>

\* Lines 52-54, with the first intersection in place of the single one.
HasHitFirst(q) == q.n >= 1 /\ q.position # <<>> /\ q.normal # <<>>

\* Lines 52-54: the single intersection with a position and a normal.
HasHit(q) == q.n = 1 /\ q.position # <<>> /\ q.normal # <<>>

\* Line 56, with pressed in place of just_pressed.
ClickedWhileHeld == "Left" \in pressed

\* Line 56: mouse_input.just_pressed(MouseButton::Left).
Clicked == "Left" \in just_pressed

\* new_cube_from_raycast, lines 45-119.
new_cube_from_raycast ==
    /\ stage = "update"
    /\ IF HasHit(intersection) /\ Clicked
       THEN entities' = Append(entities,
                SpawnedCube(Resolve(intersection.position[1], intersection.normal[1])))
       ELSE UNCHANGED entities
    /\ stage' = "last"
    /\ UNCHANGED <<pressed, just_pressed, events, intersection>>

Init ==
    /\ entities = <<>>
    /\ pressed = {}
    /\ just_pressed = {}
    /\ events = <<>>
    /\ intersection = Intersection(0, <<>>, <<>>)
    /\ stage = "startup"

Next == setup \/ BeginFrame \/ new_cube_from_raycast \/ EndFrame

Spec == Init /\ [][Next]_vars

----------------------------------------------------------------------------
(* src/main.rs.                                                            *)

SetupEntitiesOld == [i \in 1..(GRID_SIZE * GRID_SIZE) |-> FloorTile(i)] \o DecorationsOld

\* setup_base_grid, lines 109-158.
setup_base_grid ==
    /\ stage = "startup"
    /\ entities' = SetupEntitiesOld
    /\ stage' = "first"
    /\ UNCHANGED <<pressed, just_pressed, events, intersection>>

\* Lines 52-58: the first unread event exists and is of the left button.
FirstEventIsLeft(evs) == evs # <<>> /\ Head(evs).button = "Left"

\* new_cube_from_raycast, lines 41-107.  The events of a frame are dropped by
\* the next frame's Events::update, read or not.
new_cube_from_raycast_event_reader ==
    /\ stage = "update"
    /\ IF HasHit(intersection) /\ FirstEventIsLeft(events)
       THEN entities' = Append(entities,
                SpawnedCube(ResolveOld(intersection.position[1], intersection.normal[1])))
       ELSE UNCHANGED entities
    /\ stage' = "last"
    /\ UNCHANGED <<pressed, just_pressed, events, intersection>>

NextOld == setup_base_grid \/ BeginFrame \/ new_cube_from_raycast_event_reader \/ EndFrame

SpecOld == Init /\ [][NextOld]_vars

----------------------------------------------------------------------------
(* The resolver on sampled hits: new_cube_from_raycast of src/src/main.rs  *)
(* run once on a frame with a left press and one intersection.             *)

Cells == -MaxCell..MaxCell

\* The sampled coordinates: for each cell its two boundaries, the f32 next to
\* each boundary inside the cell, and its centre.
SampleCoords ==
    UNION {{I64AsF32(c) - Half, F32Succ(I64AsF32(c) - Half), I64AsF32(c),
            F32Pred(I64AsF32(c) + Half), I64AsF32(c) + Half} : c \in Cells}

SampleHits ==
    {Intersection(1, <<Vec3(px, py, pz)>>, <<nrm>>)
        : px \in SampleCoords, py \in SampleCoords, pz \in SampleCoords, nrm \in Normals}

InitResolve ==
    /\ entities = SetupEntities
    /\ pressed = {"Left"}
    /\ just_pressed = {"Left"}
    /\ events = <<MouseButtonInput("Left", "Pressed")>>
    /\ intersection \in SampleHits
    /\ stage = "update"

NextResolve == new_cube_from_raycast

SpecResolve == InitResolve /\ [][NextResolve]_vars

----------------------------------------------------------------------------
(* Vocabulary of the properties.                                           *)

Axes == {"x", "y", "z"}

Sgn(n) == IF n > 0 THEN 1 ELSE IF n < 0 THEN -1 ELSE 0

\* The hit of the frame.
HitPosition == intersection.position[1]

HitNormal == intersection.normal[1]

\* The entity spawned last.
LastEntity(es) == es[Len(es)]

\* es with one more entity: a unit cube at b carrying BlockPosition b and RayCastMesh.
WithCube(es, b) == Append(es, Entity("Cube", <<b>>, TRUE))

\* The frame has exactly one intersection, and it carries a position and a
\* normal.
OneHit ==
    /\ intersection.n = 1
    /\ intersection.position # <<>>
    /\ intersection.normal # <<>>

\* The handler has run on a frame with one such intersection.
Handled == stage = "last" /\ OneHit

\* The handler of the frame spawns.
Spawns == stage = "update" /\ entities' # entities

\* The left button goes from released to pressed during the frame.
LeftPressedThisFrame ==
    \E i \in 1..Len(events) : events[i] = MouseButtonInput("Left", "Pressed")

\* One coordinate p of a hit lies on the face with normal component na of the
\* unit cube centred at c: on the face along the normal, strictly inside otherwise.
OnFaceAxis(p, c, na) ==
    IF na # 0 THEN p = I64AsF32(c) + Sgn(na) * Half
    ELSE I64AsF32(c) - Half < p /\ p < I64AsF32(c) + Half

OnFace(pos, c, nrm) == \A a \in Axes : OnFaceAxis(pos[a], c[a], nrm[a])

\* The cells of the model on whose face with normal nrm the point pos lies.
FaceCells(pos, nrm) ==
    {BlockPosition(cx, cy, cz) :
        cx \in {c \in Cells : OnFaceAxis(pos.x, c, nrm.x)},
        cy \in {c \in Cells : OnFaceAxis(pos.y, c, nrm.y)},
        cz \in {c \in Cells : OnFaceAxis(pos.z, c, nrm.z)}}

\* The cell next to c in the direction of nrm.
Adjacent(c, nrm) == BlockPosition(c.x + Sgn(nrm.x), c.y + Sgn(nrm.y), c.z + Sgn(nrm.z))

----------------------------------------------------------------------------
(* C1.                                                                     *)

\* C1: for every cell c, every axis-aligned unit normal n and every hit on the
\* face of the unit cube at c that faces n (strictly inside the face on the two
\* other axes), the spawned cube's BlockPosition is c + n.
C1_AdjacentCell ==
    Handled =>
        \A c \in FaceCells(HitPosition, HitNormal) :
            LastEntity(entities).block = <<Adjacent(c, HitNormal)>>

----------------------------------------------------------------------------
(* C5.                                                                     *)

\* C5: on every axis, a hit whose coordinate is exactly the integer k and whose
\* normal is +1 on that axis resolves to k + 1, and to k - 1 when the normal is -1.
C5_IntegerHit ==
    Handled =>
        \A a \in Axes :
            (HitNormal[a] # 0 /\ HitPosition[a] % One = 0)
                => LastEntity(entities).block[1][a] = HitPosition[a] \div One + Sgn(HitNormal[a])

----------------------------------------------------------------------------
(* C9.                                                                     *)

\* C9: on every axis where the normal's component is zero, the resolved
\* coordinate is the integer k with k - 0.5 <= p < k + 0.5, that is floor(p + 0.5),
\* for negative, zero and positive k alike.
C9_RoundToNearestCell ==
    Handled =>
        \A a \in Axes :
            HitNormal[a] = 0
                => LastEntity(entities).block[1][a] = (HitPosition[a] + Half) \div One

----------------------------------------------------------------------------
(* C10.                                                                    *)

\* The symmetric formulation of the specification's section 4.1 on one axis: the
\* +0.5 / -0.5 offset, then the +0.5 bias, the negative correction and the truncation.
ResolveAxisSym(p, n) ==
    F32AsI64(NegativeCorrection(F32Add(F32Add(p, OffsetSym(n)), Half)))

ResolveSym(position, normal) ==
    BlockPosition(ResolveAxisSym(position.x, normal.x),
                  ResolveAxisSym(position.y, normal.y),
                  ResolveAxisSym(position.z, normal.z))

\* C10: for every hit on a face of a unit cube centred at an integer cell, the
\* cube spawned by the +0.5 / -0.51 resolver is at the BlockPosition the
\* symmetric +0.5 / -0.5 formulation gives.
C10_SymmetricAgrees ==
    Handled =>
        \A c \in FaceCells(HitPosition, HitNormal) :
            LastEntity(entities).block = <<ResolveSym(HitPosition, HitNormal)>>

\* A hit on the face facing -x of the cube at (-1,0,1) has been resolved.
C10_Witness ==
    /\ Handled
    /\ HitNormal = Vec3(-One, 0, 0)
    /\ OnFace(HitPosition, BlockPosition(-1, 0, 1), HitNormal)
    /\ LastEntity(entities).block = <<BlockPosition(-2, 0, 1)>>

----------------------------------------------------------------------------
(* C2.                                                                     *)

Up == Vec3(0, One, 0)

\* pos is on the top of the floor tile at (2,0,2), edges included.
OnTile22(pos) ==
    /\ pos.y = 0
    /\ I64AsF32(2) - Half <= pos.x /\ pos.x <= I64AsF32(2) + Half
    /\ I64AsF32(2) - Half <= pos.z /\ pos.z <= I64AsF32(2) + Half

\* pos is on the top of the floor tile at (2,0,2) and not on the edges it
\* shares with the tiles at x = 3 and at z = 3.
InTile22(pos) ==
    /\ OnTile22(pos)
    /\ pos.x < I64AsF32(2) + Half
    /\ pos.z < I64AsF32(2) + Half

\* C2 as stated: a left press in a frame whose single intersection is on the top
\* of the floor tile at (2,0,2) spawns exactly one cube, at (2,1,2); a frame
\* spawns a cube only if the left button goes from released to pressed in it
\* (a held button spawns nothing).
C2_OneCubePerPress ==
    [][stage = "update" =>
          /\ (OneHit /\ LeftPressedThisFrame
                /\ HitNormal = Up /\ OnTile22(HitPosition))
                 => entities' = WithCube(entities, BlockPosition(2, 1, 2))
          /\ entities' # entities => LeftPressedThisFrame]_vars

\* C2, amended: the same for a hit with 1.5 <= x < 2.5 and 1.5 <= z < 2.5 (a hit
\* on the edge x = 2.5 or z = 2.5 belongs to the next tile).
C2_OneCubePerPressInside ==
    [][stage = "update" =>
          /\ (OneHit /\ LeftPressedThisFrame
                /\ HitNormal = Up /\ InTile22(HitPosition))
                 => entities' = WithCube(entities, BlockPosition(2, 1, 2))
          /\ entities' # entities => LeftPressedThisFrame]_vars

\* After a press on the tile spawned the cube at (2,1,2), a frame with the
\* button still held and the same kind of hit has run and spawned nothing.
C2_Witness ==
    /\ Handled
    /\ HitNormal = Up /\ InTile22(HitPosition)
    /\ "Left" \in pressed /\ events = <<>>
    /\ Cardinality(Cubes(entities)) = 1
    /\ LastEntity(entities) = Entity("Cube", <<BlockPosition(2, 1, 2)>>, TRUE)

----------------------------------------------------------------------------
(* C3.                                                                     *)

\* C3: a frame without exactly one intersection carrying a position and a
\* normal changes nothing, whatever the buttons; and a press is dropped with
\* its frame: a cube is spawned only in a frame that has both the hit and the
\* left press.
C3_NoHitNoOp ==
    [][stage = "update" =>
          /\ ~OneHit =>
                 /\ entities' = entities
                 /\ pressed' = pressed /\ just_pressed' = just_pressed
          /\ entities' # entities => (OneHit /\ LeftPressedThisFrame)]_vars

\* A frame with a left press and two intersections has run: nothing was spawned.
C3_Witness ==
    /\ stage = "last"
    /\ intersection.n = 2
    /\ LeftPressedThisFrame
    /\ Cubes(entities) = {}

----------------------------------------------------------------------------
(* C4.                                                                     *)

\* No two placed cubes have the same BlockPosition.
NoSharedCell(es) == \A i, j \in Cubes(es) : es[i].block = es[j].block => i = j

\* pos, with normal nrm, lies on the surface of the unit cube at b.
OnSurface(pos, nrm, b) ==
    \A a \in Axes :
        IF nrm[a] # 0 THEN Abs(pos[a] - I64AsF32(b[a])) = Half
        ELSE Abs(pos[a] - I64AsF32(b[a])) <= Half

\* The cells of the placed cubes that have a face through the hit.
CubesThrough(pos, nrm, es) ==
    {es[i].block[1] : i \in {j \in Cubes(es) : OnSurface(pos, nrm, es[j].block[1])}}

\* C4: a qualifying press whose hit is on a floor tile or on a face of a placed
\* cube, and not on a face of another placed cube, never gives two placed cubes
\* the same BlockPosition.
C4_NoSharedCell ==
    [][(/\ stage = "update"
        /\ OneHit
        /\ Cardinality(CubesThrough(HitPosition, HitNormal, entities)) <= 1
        /\ NoSharedCell(entities))
          => NoSharedCell(entities')]_vars

----------------------------------------------------------------------------
(* C6.                                                                     *)

FloorCells == {BlockPosition(fx, 0, fz) : fx \in 0..(GRID_SIZE - 1), fz \in 0..(GRID_SIZE - 1)}

\* The floor tiles of es, as indices.
Tiles(es) == {i \in 1..Len(es) : es[i].mesh = "Plane"}

\* The hittable geometry of es is the 25 floor tiles and the placed cubes.
HittableGeometry(es) ==
    /\ Hittable(es) = Tiles(es) \cup Cubes(es)
    /\ Cardinality(Tiles(es)) = Cardinality(FloorCells)
    /\ {es[i].block : i \in Tiles(es)} = {<<b>> : b \in FloorCells}
    /\ \A i \in Cubes(es) : Len(es[i].block) = 1

\* pos lies on the face of the unit cube at b whose outward normal is nrm,
\* edges included.
OnCubeFace(pos, nrm, b) ==
    \A a \in Axes :
        IF nrm[a] # 0 THEN pos[a] = I64AsF32(b[a]) + Sgn(nrm[a]) * Half
        ELSE Abs(pos[a] - I64AsF32(b[a])) <= Half

\* b touches the cube at c on the side of its face with normal nrm.
NextTo(b, c, nrm) ==
    \A a \in Axes :
        IF nrm[a] # 0 THEN b[a] = c[a] + Sgn(nrm[a]) ELSE Abs(b[a] - c[a]) <= 1

\* C6: in every state after setup the hittable geometry is the 25 floor tiles
\* plus every placed cube; no step removes an entity; a placement spawns exactly
\* one entity, carrying a BlockPosition and RayCastMesh; and a qualifying press
\* whose hit is on a face of a placed cube spawns a cube next to that cube.
C6_HittableGeometry ==
    [][/\ stage' # "startup" => HittableGeometry(entities')
       /\ Len(entities') >= Len(entities)
       /\ SubSeq(entities', 1, Len(entities)) = entities
       /\ (stage = "update" /\ entities' # entities) =>
              /\ Len(entities') = Len(entities) + 1
              /\ LastEntity(entities').mesh = "Cube"
              /\ LastEntity(entities').raycast_mesh
              /\ Len(LastEntity(entities').block) = 1
       /\ (stage = "update" /\ OneHit /\ LeftPressedThisFrame) =>
              \A i \in Cubes(entities) :
                  OnCubeFace(HitPosition, HitNormal, entities[i].block[1])
                      => /\ Len(entities') = Len(entities) + 1
                         /\ NextTo(LastEntity(entities').block[1],
                                   entities[i].block[1], HitNormal)]_vars

\* A press on the face facing +x of the cube placed at (2,1,2) has spawned a
\* second cube, at (3,1,2).
C6_Witness ==
    /\ Handled
    /\ Cardinality(Cubes(entities)) = 2
    /\ HitNormal = Vec3(One, 0, 0)
    /\ \E i \in Cubes(entities) :
          /\ i < Len(entities)
          /\ entities[i].block = <<BlockPosition(2, 1, 2)>>
          /\ OnCubeFace(HitPosition, HitNormal, entities[i].block[1])
    /\ LastEntity(entities) = Entity("Cube", <<BlockPosition(3, 1, 2)>>, TRUE)

----------------------------------------------------------------------------
(* C8.                                                                     *)

\* C8: in the program of src/main.rs a cube is spawned only in a frame where the
\* left button goes from released to pressed: a release event or a held button
\* spawns nothing.
C8_SpawnOnlyOnPress ==
    [][(stage = "update" /\ entities' # entities) => LeftPressedThisFrame]_vars

====
